---------------------------- MODULE Spec2Model ----------------------------
(***************************************************************************)
(* A model of preq (github.com/codesoap/preq): the HTTP response extractor *)
(* (package extractor), the per-request executor doRequest and the worker  *)
(* pipeline of main.                                                       *)
(*                                                                         *)
(* Byte strings are sequences of byte values (ASCII codes); a comment next *)
(* to each literal gives its text.  Three specifications share the         *)
(* module's variables:                                                     *)
(*   Spec         the pipeline of main (producer, workers, closer, printer)*)
(*   SpecExtract  ExtractResponse applied to generated response streams    *)
(*   SpecRequest  doRequest applied to one descriptor and one server       *)
(***************************************************************************)
EXTENDS Integers, Sequences, FiniteSets, TLC

(***************************************************************************)
(* Bytes and the string functions of the Go library the extractor uses.    *)
(***************************************************************************)
LF == 10
CR == 13
maxBufSize == 1024

Min(a, b) == IF a <= b THEN a ELSE b

\* unicode.IsSpace on a single ASCII byte: \t \n \v \f \r and space.
IsSpace(c) == c \in {9, 10, 11, 12, 13, 32}

ToLowerByte(c) == IF c >= 65 /\ c <= 90 THEN c + 32 ELSE c

\* strings.ToLower (ASCII).
ToLower(s) == [k \in 1..Len(s) |-> ToLowerByte(s[k])]

\* strings.HasPrefix.
HasPrefix(s, p) == Len(s) >= Len(p) /\ SubSeq(s, 1, Len(p)) = p

\* The least element of a non-empty set of integers.
MinOf(S) == CHOOSE k \in S : \A j \in S : k <= j
MaxOf(S) == CHOOSE k \in S : \A j \in S : k >= j

\* strings.IndexByte, 1-based; 0 when c does not occur in s.
IndexByte(s, c) ==
    LET S == {k \in 1..Len(s) : s[k] = c}
    IN  IF S = {} THEN 0 ELSE MinOf(S)

\* strings.LastIndexByte, 1-based; 0 when c does not occur in s.
LastIndexByte(s, c) ==
    LET S == {k \in 1..Len(s) : s[k] = c}
    IN  IF S = {} THEN 0 ELSE MaxOf(S)

\* strings.TrimRight(s, "\r\n"): drops every trailing CR and LF.
TrimRightCRLF(s) ==
    LET K == {k \in 1..Len(s) : s[k] # CR /\ s[k] # LF}
    IN  IF K = {} THEN <<>> ELSE SubSeq(s, 1, MaxOf(K))

\* strings.TrimSpace.
TrimSpace(s) ==
    LET K == {k \in 1..Len(s) : ~IsSpace(s[k])}
    IN  IF K = {} THEN <<>> ELSE SubSeq(s, MinOf(K), MaxOf(K))

\* strings.SplitN(line, ":", 2)[1]: what follows the first colon.  The
\* callers have checked a prefix that ends in a colon, so one exists.
AfterColon(line) == SubSeq(line, IndexByte(line, 58) + 1, Len(line))

\* fields[len(fields)-1] of strings.Split(s, ","): what follows the last
\* comma, or all of s.
LastCommaField(s) == SubSeq(s, LastIndexByte(s, 44) + 1, Len(s))

\* strings.Split(chunk, ";")[0]: what precedes the first semicolon, or all
\* of chunk.
BeforeSemicolon(s) ==
    LET k == IndexByte(s, 59)
    IN  IF k = 0 THEN s ELSE SubSeq(s, 1, k - 1)

\* strings.Fields: the maximal runs of non-space bytes, in order.
RECURSIVE FieldsFrom(_, _)
FieldsFrom(s, from) ==
    LET B == {k \in from..Len(s) : ~IsSpace(s[k])}
    IN  IF B = {} THEN <<>>
        ELSE LET b == MinOf(B)
                 E == {k \in b..Len(s) : IsSpace(s[k])}
                 e == IF E = {} THEN Len(s) + 1 ELSE MinOf(E)
             IN  <<SubSeq(s, b, e - 1)>> \o FieldsFrom(s, e)

Fields(s) == FieldsFrom(s, 1)

\* The value of one digit in the given base, or -1.
DigitVal(c, base) ==
    LET v == IF c >= 48 /\ c <= 57 THEN c - 48
             ELSE IF c >= 97 /\ c <= 122 THEN c - 97 + 10
             ELSE IF c >= 65 /\ c <= 90 THEN c - 65 + 10
             ELSE -1
    IN  IF v >= 0 /\ v < base THEN v ELSE -1

RECURSIVE DigitsVal(_, _, _)
DigitsVal(s, base, acc) ==
    IF s = <<>> THEN acc
    ELSE DigitsVal(Tail(s), base, acc * base + DigitVal(Head(s), base))

\* strconv.ParseInt(s, base, 64) for an explicit base (10 or 16): an
\* optional sign, then at least one digit of the base and nothing else.
\* The generated inputs keep tokens short, so values stay far below 2^31 and
\* the int64 range error of ParseInt is never met.
ParseInt(s, base) ==
    LET signed == s # <<>> /\ Head(s) \in {43, 45}
        digits == IF signed THEN Tail(s) ELSE s
        ok     == digits # <<>> /\ \A k \in 1..Len(digits) : DigitVal(digits[k], base) >= 0
        mag    == IF ok THEN DigitsVal(digits, base, 0) ELSE 0
    IN  [ok |-> ok, val |-> IF signed /\ Head(s) = 45 THEN 0 - mag ELSE mag]

\* strconv.Atoi.
Atoi(s) == ParseInt(s, 10)


(***************************************************************************)
(* The input of ExtractResponse.  A stream is a record                     *)
(*   data      the bytes the peer sends,                                   *)
(*   end       the error that ends the stream once the bytes are read:     *)
(*             "EOF" (the peer closed) or "i/o timeout" (the deadline      *)
(*             that doRequest set on the connection expired),              *)
(*   readSize  the bytes arrive in segments of this size, and one Read     *)
(*             returns bytes of one segment only.                          *)
(* The reader's position r is the number of bytes consumed so far.         *)
(***************************************************************************)
\* The end of the segment that holds the byte after position r.
SegEnd(in, r) == ((r \div in.readSize) + 1) * in.readSize

\* The position of the first LF after position r, or 0.
NextLF(in, r) ==
    LET S == {k \in (r + 1)..Len(in.data) : in.data[k] = LF}
    IN  IF S = {} THEN 0 ELSE MinOf(S)

\* bufio.Reader.ReadBytes('\n') at position r, the next LF being at e: the
\* bytes through that LF; when the stream ends first (e = 0), the rest of
\* the stream and the stream's error.
ReadBytesTo(in, r, e) ==
    IF e = 0
    THEN [err |-> in.end, raw |-> SubSeq(in.data, r + 1, Len(in.data)),
          r |-> Len(in.data)]
    ELSE [err |-> "nil", raw |-> SubSeq(in.data, r + 1, e), r |-> e]

ReadBytes(in, r) == ReadBytesTo(in, r, NextLF(in, r))

\* bufio.Reader.Read(buf) with len(buf) = size: bytes of one segment, at most
\* size of them; at the end of the stream 0 bytes and the stream's error.
Read(in, r, size) ==
    IF r >= Len(in.data)
    THEN [err |-> in.end, n |-> 0]
    ELSE [err |-> "nil", n |-> Min(size, Min(SegEnd(in, r), Len(in.data)) - r)]

\* io.ReadFull(in, buf) with len(buf) = n >= 0: exactly n bytes, or an error;
\* io.EOF after some but not all bytes becomes io.ErrUnexpectedEOF.
ReadFull(in, r, n) ==
    IF Len(in.data) - r >= n
    THEN [err |-> "nil", r |-> r + n]
    ELSE [err |-> IF in.end = "EOF" /\ Len(in.data) > r
                  THEN "unexpected EOF" ELSE in.end,
          r |-> Len(in.data)]

(***************************************************************************)
(* package extractor.  Every function threads st = [out, r]: the bytes     *)
(* written to the output so far and the reader's position.  A function of  *)
(* the source is an operator of the same name; where it uses the result of *)
(* a call more than once, the rest of its body is a second operator that   *)
(* takes that result as a parameter.                                       *)
(***************************************************************************)
\* readAndCopyLine after in.ReadBytes('\n') has returned rb.
readAndCopyLineOf(st, rb) ==
    IF rb.err # "nil"
    THEN [err |-> "could not read line: " \o rb.err, line |-> <<>>,
          out |-> st.out, r |-> rb.r]
    ELSE [err |-> "nil", line |-> TrimRightCRLF(rb.raw),
          out |-> st.out \o rb.raw, r |-> rb.r]

readAndCopyLine(in, st) == readAndCopyLineOf(st, ReadBytes(in, st.r))

\* What copyN returns: its error, the output and position it leaves, and
\* whether it panicked instead of returning.
CopyResult(err, out, r) == [err |-> err, out |-> out, r |-> r, panic |-> FALSE]

\* The end of copyN, lines 145 to 150, io.ReadFull having returned rf.
copyNFull(in, st, rf) ==
    IF rf.err # "nil"
    THEN CopyResult(rf.err, st.out, rf.r)
    ELSE CopyResult("nil", st.out \o SubSeq(in.data, st.r + 1, rf.r), rf.r)

RECURSIVE copyNLoop(_, _, _)
\* A copyN that counts a whole buffer for every pass: n -= maxBufSize.
copyNReadCountsBuffer(in, st, n, rd) ==
    IF rd.err # "nil"
    THEN CopyResult(rd.err, st.out, st.r)
    ELSE copyNLoop(in,
                   [out |-> st.out \o SubSeq(in.data, st.r + 1, st.r + rd.n),
                    r |-> st.r + rd.n],
                   n - maxBufSize)

\* One pass of the loop of copyN, lines 134 to 143, in.Read having returned rd.
copyNRead(in, st, n, rd) ==
    IF rd.err # "nil"
    THEN CopyResult(rd.err, st.out, st.r)
    ELSE copyNLoop(in,
                   [out |-> st.out \o SubSeq(in.data, st.r + 1, st.r + rd.n),
                    r |-> st.r + rd.n],
                   n - rd.n)

\* copyN from its loop on, lines 133 to 150.
copyNLoop(in, st, n) ==
    IF n > maxBufSize
    THEN copyNRead(in, st, n, Read(in, st.r, maxBufSize))
    ELSE IF n < 0
    THEN \* make([]byte, n) with a negative length panics.
         [err |-> "panic: runtime error: makeslice: len out of range",
          out |-> st.out, r |-> st.r, panic |-> TRUE]
    ELSE copyNFull(in, st, ReadFull(in, st.r, n))

copyN(in, st, n) ==
    IF n = 0 THEN CopyResult("nil", st.out, st.r) ELSE copyNLoop(in, st, n)

\* A hasNoBodyStatusCode that leaves out 304.
isNoBodyCodeWithout304(sc) ==
    IF ~sc.ok THEN FALSE
    ELSE (sc.val >= 100 /\ sc.val < 200) \/ sc.val = 204

\* The end of hasNoBodyStatusCode, lines 82 to 86, given strconv.Atoi's result.
isNoBodyCode(sc) ==
    IF ~sc.ok THEN FALSE
    ELSE (sc.val >= 100 /\ sc.val < 200) \/ sc.val = 204 \/ sc.val = 304

hasNoBodyStatusCodeOf(fields) ==
    IF Len(fields) < 2 THEN FALSE ELSE isNoBodyCode(Atoi(fields[2]))

hasNoBodyStatusCode(statusLine) == hasNoBodyStatusCodeOf(Fields(statusLine))

sContentLengthColon == <<99, 111, 110, 116, 101, 110, 116, 45, 108, 101, 110, 103, 116, 104, 58>>  \* "content-length:"
sTransferEncodingColon == <<116, 114, 97, 110, 115, 102, 101, 114, 45, 101, 110, 99, 111, 100, 105, 110, 103, 58>>  \* "transfer-encoding:"
sChunked == <<99, 104, 117, 110, 107, 101, 100>>  \* "chunked"

\* What readHead returns, with the output and position it leaves.
HeadResult(err, hd, noBody, out, r) ==
    [err |-> err, hasCL |-> hd.hasCL, contentLength |-> hd.contentLength,
     chunked |-> hd.chunked, noBody |-> noBody, out |-> out, r |-> r]

\* return nil, false, false, err
HeadError(err, out, r) ==
    HeadResult(err, [hasCL |-> FALSE, contentLength |-> 0, chunked |-> FALSE],
               FALSE, out, r)

\* Lines 69 to 72: a Transfer-Encoding line sets chunked.  The prefix is
\* looked for in the lower-cased line, the value is taken from the line as
\* read.
setChunked(hd, line, lowerLine) ==
    IF HasPrefix(lowerLine, sTransferEncodingColon)
    THEN [hd EXCEPT !.chunked = (TrimSpace(LastCommaField(AfterColon(line))) = sChunked)]
    ELSE hd

RECURSIVE readHeadLoop(_, _, _, _)
\* Lines 58 to 68 and on, for a Content-Length line whose value parsed to cl.
readContentLength(in, ln, hd, noBody, cl) ==
    IF hd.hasCL
    THEN HeadError("multiple Content-Length headers found", ln.out, ln.r)
    ELSE IF ~cl.ok
    THEN HeadError("invalid Content-Length", ln.out, ln.r)
    ELSE readHeadLoop(in, [out |-> ln.out, r |-> ln.r],
                      setChunked([hd EXCEPT !.hasCL = TRUE, !.contentLength = cl.val],
                                 ln.line, ToLower(ln.line)),
                      noBody)

\* Lines 57 to 72, for a header line ln.line that is not blank.
readHeaderLine(in, ln, hd, noBody, lowerLine) ==
    IF HasPrefix(lowerLine, sContentLengthColon)
    THEN readContentLength(in, ln, hd, noBody,
                           ParseInt(TrimSpace(AfterColon(ln.line)), 10))
    ELSE readHeadLoop(in, [out |-> ln.out, r |-> ln.r],
                      setChunked(hd, ln.line, lowerLine), noBody)

\* Lines 51 to 57 of the loop, readAndCopyLine having returned ln.
readHeadLine(in, ln, hd, noBody) ==
    IF ln.err # "nil"
    THEN HeadError("could not read line: " \o ln.err, ln.out, ln.r)
    ELSE IF ln.line = <<>>
    THEN HeadResult("nil", hd, noBody, ln.out, ln.r)
    ELSE readHeaderLine(in, ln, hd, noBody, ToLower(ln.line))

\* The header loop of readHead, lines 49 to 74.  hd = [hasCL, contentLength,
\* chunked] is what the lines read so far have set.
readHeadLoop(in, st, hd, noBody) ==
    readHeadLine(in, readAndCopyLine(in, st), hd, noBody)

\* readHead after the status line has been read as ln, lines 45 to 74.
readHeadStatus(in, ln) ==
    IF ln.err # "nil"
    THEN HeadError("could not read status line: " \o ln.err, ln.out, ln.r)
    ELSE readHeadLoop(in, [out |-> ln.out, r |-> ln.r],
                      [hasCL |-> FALSE, contentLength |-> 0, chunked |-> FALSE],
                      hasNoBodyStatusCode(ln.line))

readHead(in, st) == readHeadStatus(in, readAndCopyLine(in, st))

RECURSIVE readTrailers(_, _)
readTrailersLine(in, ln) ==
    IF ln.err # "nil" \/ ln.line = <<>>
    THEN CopyResult(ln.err, ln.out, ln.r)
    ELSE readTrailers(in, [out |-> ln.out, r |-> ln.r])

\* The trailer loop of readChunkedBody, lines 107 to 115.
readTrailers(in, st) == readTrailersLine(in, readAndCopyLine(in, st))

RECURSIVE readChunkedBody(_, _)
\* Lines 103 to 105, copyN having returned c.
readChunkData(in, c) ==
    IF c.panic THEN c
    ELSE IF c.err # "nil"
    THEN [c EXCEPT !.err = "could not read full chunk body: " \o c.err]
    ELSE readChunkedBody(in, [out |-> c.out, r |-> c.r])

\* A readChunkedBody that copies the payload without its terminator.
readChunkSizeWithoutCRLF(in, ln, chunkSize) ==
    IF ~chunkSize.ok
    THEN CopyResult("invalid chunk", ln.out, ln.r)
    ELSE IF chunkSize.val = 0
    THEN readTrailers(in, [out |-> ln.out, r |-> ln.r])
    ELSE readChunkData(in, copyN(in, [out |-> ln.out, r |-> ln.r], chunkSize.val))

\* Lines 95 to 105, the chunk's size line having been parsed to chunkSize.
readChunkSize(in, ln, chunkSize) ==
    IF ~chunkSize.ok
    THEN CopyResult("invalid chunk", ln.out, ln.r)
    ELSE IF chunkSize.val = 0
    THEN readTrailers(in, [out |-> ln.out, r |-> ln.r])
    ELSE \* +2 is for the \r\n that must come at the end of each chunk.
         readChunkData(in, copyN(in, [out |-> ln.out, r |-> ln.r], chunkSize.val + 2))

\* Lines 91 to 105, readAndCopyLine having returned ln.
readChunkLine(in, ln) ==
    IF ln.err # "nil"
    THEN CopyResult(ln.err, ln.out, ln.r)
    ELSE readChunkSize(in, ln, ParseInt(BeforeSemicolon(ln.line), 16))

readChunkedBody(in, st) == readChunkLine(in, readAndCopyLine(in, st))

\* io.Copy(&out, reader): every remaining byte; the stream's end is an error
\* unless it is io.EOF.
ioCopy(in, st) ==
    CopyResult(IF in.end = "EOF" THEN "nil" ELSE in.end,
               st.out \o SubSeq(in.data, st.r + 1, Len(in.data)),
               Len(in.data))

\* An ExtractResponse that looks at the Content-Length first.
readBodyLengthFirst(in, h) ==
    IF h.hasCL THEN copyN(in, [out |-> h.out, r |-> h.r], h.contentLength)
    ELSE IF h.chunked THEN readChunkedBody(in, [out |-> h.out, r |-> h.r])
    ELSE ioCopy(in, [out |-> h.out, r |-> h.r])

\* Lines 31 to 37: the body, by the framing the head h asks for.
readBody(in, h) ==
    IF h.chunked THEN readChunkedBody(in, [out |-> h.out, r |-> h.r])
    ELSE IF h.hasCL THEN copyN(in, [out |-> h.out, r |-> h.r], h.contentLength)
    ELSE ioCopy(in, [out |-> h.out, r |-> h.r])

\* What ExtractResponse returns: (out.String(), err).  panic = TRUE is a
\* run-time panic inside the call: it never returns, and neither out nor
\* err is delivered.
ExtractResult(res) == [out |-> res.out, err |-> res.err, panic |-> res.panic]

\* An ExtractResponse that does not look at headRequest.
ExtractBodyOfHead(in, headRequest, h) ==
    IF h.err # "nil" \/ h.noBody
    THEN [out |-> h.out, err |-> h.err, panic |-> FALSE]
    ELSE ExtractResult(readBody(in, h))

\* ExtractResponse after readHead has returned h, lines 28 to 38.
ExtractBody(in, headRequest, h) ==
    IF h.err # "nil" \/ headRequest \/ h.noBody
    THEN [out |-> h.out, err |-> h.err, panic |-> FALSE]
    ELSE ExtractResult(readBody(in, h))

ExtractResponse(in, headRequest) ==
    ExtractBody(in, headRequest, readHead(in, [out |-> <<>>, r |-> 0]))

(***************************************************************************)
(* Generated responses: the inputs ExtractResponse is checked on.  A       *)
(* response is described by its parts, and Stream renders the parts to the *)
(* bytes the extractor reads.  The labels of the parts (a header's kind, a *)
(* chunk's well-formedness) are fixed when the part is built, not by       *)
(* parsing its bytes.                                                      *)
(***************************************************************************)
MaxHeaders == 2
MaxChunks == 2
Over == 6

sCRLF == <<13, 10>>
sLF == <<10>>

RECURSIVE DecStr(_)
\* The decimal digits of n >= 0.
DecStr(n) == IF n < 10 THEN <<48 + n>> ELSE DecStr(n \div 10) \o <<48 + (n % 10)>>

HexDigit(d, upper) == IF d < 10 THEN 48 + d ELSE IF upper THEN 55 + d ELSE 87 + d

RECURSIVE HexStr(_, _)
\* The hexadecimal digits of n >= 0, in upper or lower case.
HexStr(n, upper) ==
    IF n < 16 THEN <<HexDigit(n, upper)>>
    ELSE HexStr(n \div 16, upper) \o <<HexDigit(n % 16, upper)>>

\* n bytes a, b, c, ... z, a, ...
Letters(n) == [k \in 1..n |-> 97 + ((k - 1) % 26)]

sStatus200 == <<72, 84, 84, 80, 47, 49, 46, 49, 32, 50, 48, 48, 32, 79, 75>>  \* "HTTP/1.1 200 OK"
sStatus404 == <<72, 84, 84, 80, 47, 49, 46, 49, 32, 52, 48, 52, 32, 78, 111, 116, 32, 70, 111, 117, 110, 100>>  \* "HTTP/1.1 404 Not Found"
sStatus204 == <<72, 84, 84, 80, 47, 49, 46, 49, 32, 50, 48, 52, 32, 78, 111, 32, 67, 111, 110, 116, 101, 110, 116>>  \* "HTTP/1.1 204 No Content"
sStatus304 == <<72, 84, 84, 80, 47, 49, 46, 49, 32, 51, 48, 52, 32, 78, 111, 116, 32, 77, 111, 100, 105, 102, 105, 101, 100>>  \* "HTTP/1.1 304 Not Modified"
sStatus100 == <<72, 84, 84, 80, 47, 49, 46, 49, 32, 49, 48, 48, 32, 67, 111, 110, 116, 105, 110, 117, 101>>  \* "HTTP/1.1 100 Continue"
sStatusNoCode == <<72, 84, 84, 80, 47, 49, 46, 49>>  \* "HTTP/1.1"

\* A status line with what the protocol says of its code: body = TRUE when a
\* body may follow, wellFormed = FALSE when the line has no status code.
StatusLines ==
    { [text |-> sStatus200, code |-> 200, wellFormed |-> TRUE],
      [text |-> sStatus404, code |-> 404, wellFormed |-> TRUE],
      [text |-> sStatus204, code |-> 204, wellFormed |-> TRUE],
      [text |-> sStatus304, code |-> 304, wellFormed |-> TRUE],
      [text |-> sStatus100, code |-> 100, wellFormed |-> TRUE],
      [text |-> sStatusNoCode, code |-> 0, wellFormed |-> FALSE] }

NoBodyCode(code) == (code >= 100 /\ code < 200) \/ code = 204 \/ code = 304

sCLName == <<67, 111, 110, 116, 101, 110, 116, 45, 76, 101, 110, 103, 116, 104, 58, 32>>  \* "Content-Length: "
sCLNameLower == <<99, 111, 110, 116, 101, 110, 116, 45, 108, 101, 110, 103, 116, 104, 58>>  \* "content-length:"
sTEChunked == <<84, 114, 97, 110, 115, 102, 101, 114, 45, 69, 110, 99, 111, 100, 105, 110, 103, 58, 32, 99, 104, 117, 110, 107, 101, 100>>  \* "Transfer-Encoding: chunked"
sTEGzipChunked == <<116, 114, 97, 110, 115, 102, 101, 114, 45, 101, 110, 99, 111, 100, 105, 110, 103, 58, 103, 122, 105, 112, 44, 32, 32, 99, 104, 117, 110, 107, 101, 100, 32>>  \* "transfer-encoding:gzip,  chunked "
sTEChunkedGzip == <<84, 114, 97, 110, 115, 102, 101, 114, 45, 69, 110, 99, 111, 100, 105, 110, 103, 58, 32, 99, 104, 117, 110, 107, 101, 100, 44, 32, 103, 122, 105, 112>>  \* "Transfer-Encoding: chunked, gzip"
sTEUpper == <<84, 114, 97, 110, 115, 102, 101, 114, 45, 69, 110, 99, 111, 100, 105, 110, 103, 58, 32, 67, 104, 117, 110, 107, 101, 100>>  \* "Transfer-Encoding: Chunked"
sOther == <<88, 45, 65, 58, 32, 98>>  \* "X-A: b"
sMinus5 == <<45, 53>>  \* "-5"
sAbc == <<97, 98, 99>>  \* "abc"

\* A header line.  k is "CL" (Content-Length with the decimal number n),
\* "CLbad" (Content-Length with a value that is no non-negative decimal
\* number; parses says whether the value is a decimal number with a sign,
\* and n is then that number), "TE" (Transfer-Encoding; coding says whether
\* its last coding is chunked: "chunked" in lower case, "Chunked" in another
\* case, "other") or "other".
CLHeader(name, n) ==
    [k |-> "CL", n |-> n, parses |-> TRUE, coding |-> "", text |-> name \o DecStr(n)]
CLBadHeader(value, parses, n) ==
    [k |-> "CLbad", n |-> n, parses |-> parses, coding |-> "", text |-> sCLName \o value]
TEHeader(text, coding) ==
    [k |-> "TE", n |-> 0, parses |-> TRUE, coding |-> coding, text |-> text]
OtherHeader(text) ==
    [k |-> "other", n |-> 0, parses |-> TRUE, coding |-> "", text |-> text]

LongLen == maxBufSize + Over

HeaderLines ==
    { CLHeader(sCLName, 0), CLHeader(sCLName, 3), CLHeader(sCLNameLower, LongLen),
      CLBadHeader(sMinus5, TRUE, 0 - 5), CLBadHeader(sAbc, FALSE, 0),
      TEHeader(sTEChunked, "chunked"), TEHeader(sTEGzipChunked, "chunked"),
      TEHeader(sTEChunkedGzip, "other"), TEHeader(sTEUpper, "Chunked"),
      OtherHeader(sOther) }

\* Every sequence of at most n elements of S.
RECURSIVE SeqsUpTo(_, _)
SeqsUpTo(S, n) ==
    IF n = 0 THEN {<<>>}
    ELSE LET shorter == SeqsUpTo(S, n - 1)
         IN  shorter \cup {Append(q, e) : q \in shorter, e \in S}

sAllGood == <<65, 108, 108, 32, 103, 111, 111, 100, 46, 10>>  \* "All good.\n"
sFoo == <<102, 111, 111, 10>>  \* "foo\n"
sExt == <<59, 120, 61, 49>>  \* ";x=1"
sTrailer == <<84, 114, 97, 105, 108, 101, 114, 58, 32, 102, 111, 111>>  \* "Trailer: foo"
sExtra == <<32, 102, 111, 111>>  \* " foo"
sPlus3 == <<43, 51>>  \* "+3"
sG == <<103>>  \* "g"
sOneSpace == <<49, 32>>  \* "1 "
sOne == <<49>>  \* "1"
sZero == <<48>>  \* "0"
sZeros == <<48, 48, 48>>  \* "000"

\* A chunk: its size token, its extension, its payload.  tok is "hex" when
\* the token is the payload's length in hexadecimal digits, "short" when it
\* is hexadecimal digits that state less than the payload's length, and
\* "malformed" when it is not a non-empty string of hexadecimal digits.
GoodChunk(data, upper, ext) ==
    [tok |-> "hex", size |-> HexStr(Len(data), upper), ext |-> ext, data |-> data]
Chunk(tok, size, data) == [tok |-> tok, size |-> size, ext |-> <<>>, data |-> data]

Chunks ==
    { GoodChunk(sAllGood, FALSE, <<>>), GoodChunk(sFoo, FALSE, sExt),
      GoodChunk(Letters(LongLen), TRUE, <<>>),
      Chunk("short", sOne, sAllGood),
      Chunk("malformed", <<>>, sFoo), Chunk("malformed", sG, sFoo),
      Chunk("malformed", sMinus5, sFoo), Chunk("malformed", sPlus3, sAbc),
      Chunk("malformed", sOneSpace, sFoo) }

\* A body: k = "plain" (the bytes extra and nothing else) or "chunked" (the
\* chunks, the zero-size chunk line, the trailer lines, a blank line, and
\* then the bytes extra, which are not part of the response).
PlainBody(bytes) ==
    [k |-> "plain", chunks |-> <<>>, zero |-> <<>>, trailers |-> <<>>, extra |-> bytes]
ChunkedBody(chunks, zero, trailers, extra) ==
    [k |-> "chunked", chunks |-> chunks, zero |-> zero, trailers |-> trailers,
     extra |-> extra]

\* The chunks that other chunks follow: those the extractor reads on after.
ContinuedChunks == {c \in Chunks : c.tok = "hex" \/ c.size = sPlus3}

\* Long chunks come alone, which keeps the streams short, and a chunk the
\* extractor stops at comes last.
ChunkLists ==
    {cs \in SeqsUpTo(Chunks, MaxChunks) :
        /\ Len(cs) > 1 => \A k \in 1..Len(cs) : Len(cs[k].data) < maxBufSize
        /\ \A k \in 1..(Len(cs) - 1) : cs[k] \in ContinuedChunks}

Bodies ==
    {PlainBody(b) : b \in {<<>>, sAbc, sAbc \o sExtra, Letters(LongLen), Letters(LongLen + 3)}}
    \cup {ChunkedBody(cs, sZero, <<>>, e) : cs \in ChunkLists, e \in {<<>>, sExtra}}
    \cup {ChunkedBody(cs, sZeros \o sExt, <<sTrailer>>, sExtra) :
             cs \in {c \in ChunkLists : Len(c) <= 1}}

ReadSizes == {3, 5000}
HeadReadSizes == {3}
StreamEnds == {"EOF", "i/o timeout"}

\* The bodies that follow the generated heads, and the header lists that
\* precede the generated bodies.
HeadBodies ==
    { PlainBody(sAbc \o sExtra),
      ChunkedBody(<<GoodChunk(sAllGood, FALSE, <<>>)>>, sZero, <<>>, sExtra) }
FrameLines == {CLHeader(sCLName, 3), CLHeader(sCLNameLower, LongLen),
               TEHeader(sTEChunked, "chunked")}

\* A response as generated: its parts, the line terminator of its lines, how
\* it is delivered, and the headRequest flag ExtractResponse is called with.
\* Every head is generated with a few bodies (HeadResponses), and every body
\* with a few heads (BodyResponses).
HeadResponses ==
    [status : StatusLines, headers : SeqsUpTo(HeaderLines, MaxHeaders),
     eol : {sCRLF, sLF}, body : HeadBodies, readSize : HeadReadSizes, end : {"EOF"},
     headRequest : BOOLEAN]

BodyResponses ==
    [status : {s \in StatusLines : s.code = 200},
     headers : SeqsUpTo(FrameLines, MaxHeaders),
     eol : {sCRLF, sLF}, body : Bodies, readSize : ReadSizes, end : StreamEnds,
     headRequest : {FALSE}]

RECURSIVE Concat(_)
\* The concatenation of a sequence of byte strings.
Concat(ss) == IF ss = <<>> THEN <<>> ELSE Head(ss) \o Concat(Tail(ss))

\* The status line, the header lines and the blank line.
HeadBytes(x) ==
    x.status.text \o x.eol
    \o Concat([k \in 1..Len(x.headers) |-> x.headers[k].text \o x.eol])
    \o x.eol

\* A chunk: the size line, the payload and the payload's terminator.
ChunkBytes(c, eol) == c.size \o c.ext \o eol \o c.data \o sCRLF

\* The chunked framing of a chunked body, through its final blank line.
FramingBytes(x) ==
    Concat([k \in 1..Len(x.body.chunks) |-> ChunkBytes(x.body.chunks[k], x.eol)])
    \o x.body.zero \o x.eol
    \o Concat([k \in 1..Len(x.body.trailers) |-> x.body.trailers[k] \o x.eol])
    \o x.eol

BodyBytes(x) ==
    IF x.body.k = "chunked" THEN FramingBytes(x) \o x.body.extra ELSE x.body.extra

Stream(x) ==
    [data |-> HeadBytes(x) \o BodyBytes(x), end |-> x.end, readSize |-> x.readSize]

(***************************************************************************)
(* package main: the errors of the network, doRequest and its helpers.     *)
(*                                                                         *)
(* An httpline is a record with the fields of the struct; a pointer field  *)
(* (TLS, Reqat) is <<>> when nil and <<v>> when it points to v; byte       *)
(* strings are byte sequences, and Err is the text of the error.           *)
(***************************************************************************)
\* An error value as toErrno inspects it: whether errors.Is(err,
\* context.DeadlineExceeded) holds, its dynamic type (outer), the dynamic type
\* of the Err field of a *net.OpError (inner), and the fields and methods
\* toErrno reads from it.
NetError(msg, deadline, outer, inner, flag) ==
    [msg |-> msg, deadline |-> deadline, outer |-> outer, inner |-> inner,
     flag |-> flag]

NoError == NetError("nil", FALSE, "", "", "")

ErrDialTimeout == NetError("dial tcp: i/o timeout", TRUE, "*net.OpError", "net.Error", "Timeout")
ErrNoSuchHost == NetError("dial tcp: lookup: no such host", FALSE, "*net.OpError", "*net.DNSError", "IsNotFound")
ErrDNSTimeout == NetError("dial tcp: lookup: i/o timeout", FALSE, "*net.OpError", "*net.DNSError", "IsTimeout")
ErrDNSOther == NetError("dial tcp: lookup: server misbehaving", FALSE, "*net.OpError", "*net.DNSError", "")
ErrRefused == NetError("dial tcp: connect: connection refused", FALSE, "*net.OpError", "*os.SyscallError", "ECONNREFUSED")
ErrUnreachable == NetError("dial tcp: connect: network is unreachable", FALSE, "*net.OpError", "*os.SyscallError", "ENETUNREACH")
ErrCertificate == NetError("tls: failed to verify certificate", FALSE, "*tls.CertificateVerificationError", "", "")
ErrHandshake == NetError("tls: first record does not look like a TLS handshake", FALSE, "tls.RecordHeaderError", "", "")
ErrWriteTimeout == NetError("write tcp: i/o timeout", TRUE, "*net.OpError", "net.Error", "Timeout")
ErrWriteReset == NetError("write tcp: connection reset by peer", FALSE, "*net.OpError", "*os.SyscallError", "ECONNRESET")
ErrClosed == NetError("set tcp: use of closed network connection", FALSE, "*net.OpError", "net.Error", "")

toErrno(err) ==
    IF err.deadline THEN 31
    ELSE IF err.outer = "*net.OpError"
    THEN IF err.inner = "*net.DNSError"
         THEN IF err.flag = "IsNotFound" THEN 10
              ELSE IF err.flag = "IsTimeout" THEN 11
              ELSE 99
         ELSE IF err.inner = "*os.SyscallError"
         THEN IF err.flag = "ECONNREFUSED" THEN 30 ELSE 99
         ELSE IF err.inner = "net.Error"
         THEN IF err.flag = "Timeout" THEN 31 ELSE 99
         ELSE 99
    ELSE IF err.outer = "*tls.CertificateVerificationError" THEN 20
    ELSE 99

Httpline(host, port, tls, req) ==
    [Host |-> host, Port |-> port, TLS |-> tls, Req |-> req,
     Reqat |-> <<>>, Ping |-> 0, Resp |-> <<>>, Err |-> "", Errno |-> 0]

\* A setDefaultTLSAndPortIfNecessary that picks the port before it resolves
\* the TLS flag.
setDefaultPortBeforeTLS(request) ==
    [request EXCEPT
        !.TLS = IF request.TLS = <<>> THEN <<TRUE>> ELSE request.TLS,
        !.Port = IF request.Port = 0
                 THEN (IF request.TLS = <<TRUE>> THEN 443 ELSE 80)
                 ELSE request.Port]

setDefaultTLSAndPortIfNecessary(request) ==
    [request EXCEPT
        !.TLS = IF request.TLS = <<>> THEN <<TRUE>> ELSE request.TLS,
        !.Port = IF request.Port = 0
                 THEN (IF request.TLS = <<FALSE>> THEN 80 ELSE 443)
                 ELSE request.Port]

sHEADLower == <<104, 101, 97, 100>>  \* "head"

isHEAD(req) == Len(req) >= 4 /\ ToLower(SubSeq(req, 1, 4)) = sHEADLower

sEmptyResponse == <<72, 84, 84, 80, 47, 49, 46, 49, 32, 50, 48, 48, 32, 79, 75, 13, 10, 13, 10>>  \* "HTTP/1.1 200 OK\r\n\r\n"
sOkResponse == <<72, 84, 84, 80, 47, 49, 46, 49, 32, 50, 48, 48, 32, 79, 75, 13, 10, 67, 111, 110, 116, 101, 110, 116, 45, 76, 101, 110, 103, 116, 104, 58, 32, 51, 13, 10, 13, 10, 97, 98, 99>>  \* "HTTP/1.1 200 OK\r\nContent-Length: 3\r\n\r\nabc"
sCutResponse == <<72, 84, 84, 80, 47, 49, 46, 49, 32, 50, 48, 48, 32, 79, 75, 13, 10, 84, 114, 97, 110, 115, 102, 101, 114, 45, 69, 110, 99, 111, 100, 105, 110, 103, 58, 32, 99, 104, 117, 110, 107, 101, 100, 13, 10, 13, 10, 97, 13, 10, 65, 108, 108, 32, 103, 111>>  \* "HTTP/1.1 200 OK\r\nTransfer-Encoding: chunked\r\n\r\na\r\nAll go"
sNegResponse == <<72, 84, 84, 80, 47, 49, 46, 49, 32, 50, 48, 48, 32, 79, 75, 13, 10, 67, 111, 110, 116, 101, 110, 116, 45, 76, 101, 110, 103, 116, 104, 58, 32, 45, 53, 13, 10, 13, 10, 97, 98, 99>>  \* "HTTP/1.1 200 OK\r\nContent-Length: -5\r\n\r\nabc"

\* What the network does for a request to a host: the error of the TCP dial,
\* of the TLS handshake (when TLS is used), of SetDeadline and of the write, the
\* stream the connection then delivers, the time in milliseconds at which the
\* write returns and the time at which the first Read that yields a byte
\* returns.
Peer(dial, handshake, setDeadline, write, data, end) ==
    [dial |-> dial, handshake |-> handshake, setDeadline |-> setDeadline,
     write |-> write,
     stream |-> [data |-> data, end |-> end, readSize |-> 7],
     sentAt |-> 1000, readAt |-> 1040]

Hosts ==
    {"ok.test", "cut.test", "neg.test", "refused.test", "slowdial.test",
     "nohost.test", "dnsslow.test", "cert.test", "plain.test", "closed.test",
     "wtimeout.test", "wreset.test", "silent.test", "close.test", "stall.test"}

Server(host) ==
    CASE host = "ok.test" -> Peer(NoError, NoError, NoError, NoError, sOkResponse, "EOF")
      [] host = "cut.test" -> Peer(NoError, NoError, NoError, NoError, sCutResponse, "EOF")
      [] host = "neg.test" -> Peer(NoError, NoError, NoError, NoError, sNegResponse, "EOF")
      [] host = "refused.test" -> Peer(ErrRefused, NoError, NoError, NoError, <<>>, "EOF")
      [] host = "slowdial.test" -> Peer(ErrDialTimeout, NoError, NoError, NoError, <<>>, "EOF")
      [] host = "nohost.test" -> Peer(ErrNoSuchHost, NoError, NoError, NoError, <<>>, "EOF")
      [] host = "dnsslow.test" -> Peer(ErrDNSTimeout, NoError, NoError, NoError, <<>>, "EOF")
      [] host = "cert.test" -> Peer(NoError, ErrCertificate, NoError, NoError, <<>>, "EOF")
      [] host = "plain.test" -> Peer(NoError, ErrHandshake, NoError, NoError, <<>>, "EOF")
      [] host = "closed.test" -> Peer(NoError, NoError, ErrClosed, NoError, <<>>, "EOF")
      [] host = "wtimeout.test" -> Peer(NoError, NoError, NoError, ErrWriteTimeout, <<>>, "EOF")
      [] host = "wreset.test" -> Peer(NoError, NoError, NoError, ErrWriteReset, <<>>, "EOF")
      [] host = "silent.test" -> Peer(NoError, NoError, NoError, NoError, <<>>, "i/o timeout")
      [] host = "close.test" -> Peer(NoError, NoError, NoError, NoError, sEmptyResponse, "EOF")
      [] host = "stall.test" -> Peer(NoError, NoError, NoError, NoError, sEmptyResponse, "i/o timeout")

\* getConn: the error of dialer.Dial without TLS, of tls.DialWithDialer (the
\* dial, then the handshake) with it; NoError when there is a connection.
getConn(request) ==
    IF request.TLS # <<>> /\ ~request.TLS[1]
    THEN Server(request.Host).dial
    ELSE IF Server(request.Host).dial.msg # "nil"
    THEN Server(request.Host).dial
    ELSE Server(request.Host).handshake

\* What doRequest returns; panic = TRUE when it panics instead.
Returned(request) == [line |-> request, panic |-> FALSE]

\* doRequestRead without lines 137 to 140: the error of the extraction is
\* dropped.
doRequestReadDropsError(request, peer, res) ==
    IF res.panic THEN [line |-> request, panic |-> TRUE]
    ELSE Returned(
        [request EXCEPT
            !.Resp = res.out,
            !.Ping = IF Len(peer.stream.data) > 0
                     THEN peer.readAt - peer.sentAt ELSE request.Ping])

\* Lines 133 to 141, ExtractResponse having returned res on a connection of
\* peer: the timedReader has recorded a time if a Read yielded a byte.
doRequestRead(request, peer, res) ==
    IF res.panic THEN [line |-> request, panic |-> TRUE]
    ELSE Returned(
        [request EXCEPT
            !.Resp = res.out,
            !.Ping = IF Len(peer.stream.data) > 0
                     THEN peer.readAt - peer.sentAt ELSE request.Ping,
            !.Errno = IF res.err # "nil" THEN 99 ELSE request.Errno,
            !.Err = IF res.err # "nil" THEN res.err ELSE request.Err])

\* A result of doRequest with the calls it has made on its connection, in
\* order: "SetDeadline", "Write", "Read" (the reads of ExtractResponse) and
\* "Close".
OnConn(res, calls) == [line |-> res.line, panic |-> res.panic, conn |-> calls]

\* Lines 119 to 141, on the connection of peer.
doRequestOpen(request, peer) ==
    IF peer.setDeadline.msg # "nil"
    THEN OnConn(Returned([request EXCEPT !.Errno = 99, !.Err = peer.setDeadline.msg]),
                <<"SetDeadline">>)
    ELSE IF peer.write.msg # "nil"
    THEN OnConn(Returned([request EXCEPT !.Errno = 30, !.Err = peer.write.msg]),
                <<"SetDeadline", "Write">>)
    ELSE OnConn(doRequestRead([request EXCEPT !.Reqat = <<peer.sentAt>>], peer,
                              ExtractResponse(peer.stream, isHEAD(request.Req))),
                <<"SetDeadline", "Write", "Read">>)

\* Line 118, defer conn.Close(): the call runs when doRequest returns or
\* panics, after everything else.
deferClose(res) == [res EXCEPT !.conn = Append(res.conn, "Close")]

\* A doRequest that closes the connection at its end instead of deferring
\* the call: the early returns leave it open.
closeAtEnd(res) ==
    IF res.panic \/ Len(res.conn) < 3 THEN res ELSE deferClose(res)
doRequestConnClosesAtEnd(request, peer, err) ==
    IF err.msg # "nil"
    THEN OnConn(Returned([request EXCEPT !.Errno = toErrno(err), !.Err = err.msg]),
                <<>>)
    ELSE closeAtEnd(doRequestOpen(request, peer))

\* Lines 114 to 141, on a connection of peer or with the dial's error err.
doRequestConn(request, peer, err) ==
    IF err.msg # "nil"
    THEN OnConn(Returned([request EXCEPT !.Errno = toErrno(err), !.Err = err.msg]),
                <<>>)
    ELSE deferClose(doRequestOpen(request, peer))

\* doRequest with the defaults set, lines 112 to 141.
doRequestDefaults(request) ==
    doRequestConn(request, Server(request.Host), getConn(request))

doRequest(request) == doRequestDefaults(setDefaultTLSAndPortIfNecessary(request))

(***************************************************************************)
(* Variables.  The three specifications share them; each leaves the        *)
(* variables of the others at their idle values.                           *)
(***************************************************************************)
VARIABLES
    pFlag,           \* the -p flag: the number of workers
    input,           \* standard input: the lines, as json.Unmarshal reads them
    scanned,         \* the number of lines readLines has scanned
    rl,              \* readLines: [pc, item], item the line it is sending
    requestsClosed,  \* close(lines) has been called
    mainPc,          \* main: "spawn" (lines 71 to 81), "print", "returned"
    i,               \* the loop variable of main
    wg,              \* the counter of the sync.WaitGroup
    workers,         \* worker -> [pc, item]: "unborn", "recv", "work", "send", "done"
    closerPc,        \* the goroutine of lines 78 to 81: "unborn", "wait", "done"
    resultsClosed,   \* close(results) has been called
    printed,         \* the items printResults has printed, in order
    proc,            \* the process: "running", "exited", "exit1", "panicked"
    taken,           \* history: <<line number, worker>> of every receive from requests
    ran,             \* history: the line numbers doRequest was called on
    xin,             \* SpecExtract: the response ExtractResponse is called on
    xpc,             \* SpecExtract: "ready", then "returned" or "panicked"
    xres,            \* SpecExtract: what the call returned: [out, err]
    now,             \* SpecReader: the clock time.Now() reads, in milliseconds
    netConn,         \* SpecReader: the connection: [stream, r, write]
    timedConn,       \* SpecReader: the timedReader: [readAt], <<>> the zero time
    readCalls,       \* SpecReader: history: the calls of timedReader.Read
    treq             \* SpecReader: doRequest: [pc, line, request, wrote]

pvars == <<pFlag, input, scanned, rl, requestsClosed, mainPc, i, wg, workers,
           closerPc, resultsClosed, printed, proc, taken, ran>>
xvars == <<xin, xpc, xres>>
tvars == <<now, netConn, timedConn, readCalls, treq>>
vars == <<pvars, xvars, tvars>>

(***************************************************************************)
(* Spec: the pipeline of main.                                             *)
(***************************************************************************)
MaxLines == 2
MaxWorkers == 2

sGET == <<71, 69, 84, 32, 47, 32, 72, 84, 84, 80, 47, 49, 46, 49, 13, 10, 13, 10>>  \* "GET / HTTP/1.1\r\n\r\n"
sHEAD == <<72, 69, 65, 68, 32, 47, 32, 72, 84, 84, 80, 47, 49, 46, 49, 13, 10, 13, 10>>  \* "HEAD / HTTP/1.1\r\n\r\n"

sHEADER == <<72, 69, 65, 68, 69, 82, 32, 47, 32, 72, 84, 84, 80, 47, 49, 46, 49, 13, 10, 13, 10>>  \* "HEADER / HTTP/1.1\r\n\r\n"

\* A line of standard input as JSON text: the members it has.  port and tls
\* are <<>> when the line has no such member.
JSONLines ==
    [host : Hosts, port : {<<>>, <<0>>, <<8080>>},
     tls : {<<>>, <<TRUE>>, <<FALSE>>}, req : {sGET, sHEAD, sHEADER}]

\* json.Unmarshal(rawLine, &line), line 90: a member the text lacks leaves the
\* zero value of its field, 0 for Port and nil for TLS.
Unmarshal(j) ==
    Httpline(j.host, IF j.port = <<>> THEN 0 ELSE j.port[1], j.tls, j.req)

FreshLines == {Unmarshal(j) : j \in JSONLines}

\* Lines that come from an earlier run, with its results.
FilledLines ==
    {[Httpline(h, 0, <<>>, sGET) EXCEPT !.Errno = 30, !.Err = "old"] : h \in Hosts}
    \cup {[Httpline(h, 0, <<>>, sGET) EXCEPT !.Resp = sAbc] : h \in Hosts}

\* doRequest on every line of the model, computed once: the actions look the
\* result up (TLC evaluates nothing twice that way).
Descriptors == FreshLines \cup FilledLines
doRequestTable == {<<d, doRequest(d)>> : d \in Descriptors}
doRequestOf(d) == (CHOOSE p \in doRequestTable : p[1] = d)[2]

\* A line of standard input: k = "line" (json.Unmarshal gives the httpline
\* d), "bad" (json.Unmarshal fails) or "ioerr" (the scanner stops with an
\* error instead of this line).
InputLine(k, d) == [k |-> k, d |-> d]

NoLine == Httpline("", 0, <<>>, <<>>)
Fatal == {InputLine("bad", NoLine), InputLine("ioerr", NoLine)}

\* An item in flight: a line of standard input with its number.
Item(id, d) == [id |-> id, d |-> d]
NoItem == Item(0, NoLine)

PipelineHosts == {"ok.test", "cut.test", "neg.test", "refused.test"}
PipelineLines == {InputLine("line", Httpline(h, 0, <<>>, sGET)) : h \in PipelineHosts}

\* Standard input: at most n lines; nothing is read after a line that stops
\* readLines, so such a line comes last.
Inputs(lines, n) ==
    SeqsUpTo(lines, n)
    \cup {Append(q, f) : q \in SeqsUpTo(lines, n - 1), f \in Fatal}

IdleReader ==
    /\ now = 0
    /\ netConn = <<>>
    /\ timedConn = <<>>
    /\ readCalls = <<>>
    /\ treq = <<>>

IdleExtract ==
    /\ xin = <<>>
    /\ xpc = "idle"
    /\ xres = <<>>
    /\ IdleReader

\* The state at line 68: readLines has been started.
InitPipeline(flags, inputs) ==
    /\ pFlag \in flags
    /\ input \in inputs
    /\ scanned = 0
    /\ rl = [pc |-> "scan", item |-> NoItem]
    /\ requestsClosed = FALSE
    /\ mainPc = "spawn"
    /\ i = 0
    /\ wg = 0
    /\ workers = [w \in 1..pFlag |-> [pc |-> "unborn", item |-> NoItem]]
    /\ closerPc = "unborn"
    /\ resultsClosed = FALSE
    /\ printed = <<>>
    /\ proc = "running"
    /\ taken = <<>>
    /\ ran = <<>>

Init == InitPipeline(1..MaxWorkers, Inputs(PipelineLines, MaxLines)) /\ IdleExtract

\* main, lines 71 to 77: one pass of the loop starts one worker.
MainSpawn ==
    /\ proc = "running" /\ mainPc = "spawn" /\ i < pFlag
    /\ wg' = wg + 1
    /\ workers' = [workers EXCEPT ![i + 1].pc = "recv"]
    /\ i' = i + 1
    /\ UNCHANGED <<pFlag, input, scanned, rl, requestsClosed, mainPc, closerPc,
                   resultsClosed, printed, proc, taken, ran, xvars, tvars>>

\* main, lines 78 to 82: after the loop, start the closer and call printResults.
MainStartCloser ==
    /\ proc = "running" /\ mainPc = "spawn" /\ i >= pFlag
    /\ closerPc' = "wait"
    /\ mainPc' = "print"
    /\ UNCHANGED <<pFlag, input, scanned, rl, requestsClosed, i, wg, workers,
                   resultsClosed, printed, proc, taken, ran, xvars, tvars>>

\* A readLines that hands out the lines of standard input last line first.
ScanLineLastFirst ==
    /\ proc = "running" /\ rl.pc = "scan"
    /\ scanned < Len(input) /\ input[Len(input) - scanned].k = "line"
    /\ scanned' = scanned + 1
    /\ rl' = [pc |-> "send",
              item |-> Item(Len(input) - scanned, input[Len(input) - scanned].d)]
    /\ UNCHANGED <<pFlag, input, requestsClosed, mainPc, i, wg, workers, closerPc,
                   resultsClosed, printed, proc, taken, ran, xvars, tvars>>

\* A readLines that scans on while the line it has scanned is not received,
\* as it would with a buffer between the scanner and the workers.
ScanLineAhead ==
    /\ proc = "running" /\ rl.pc \in {"scan", "send"}
    /\ scanned < Len(input) /\ input[scanned + 1].k = "line"
    /\ scanned' = scanned + 1
    /\ rl' = [pc |-> "send", item |-> Item(scanned + 1, input[scanned + 1].d)]
    /\ UNCHANGED <<pFlag, input, requestsClosed, mainPc, i, wg, workers, closerPc,
                   resultsClosed, printed, proc, taken, ran, xvars, tvars>>

\* readLines, lines 87 to 95: scanner.Scan() gives a line that parses.
ScanLine ==
    /\ proc = "running" /\ rl.pc = "scan"
    /\ scanned < Len(input) /\ input[scanned + 1].k = "line"
    /\ scanned' = scanned + 1
    /\ rl' = [pc |-> "send", item |-> Item(scanned + 1, input[scanned + 1].d)]
    /\ UNCHANGED <<pFlag, input, requestsClosed, mainPc, i, wg, workers, closerPc,
                   resultsClosed, printed, proc, taken, ran, xvars, tvars>>

\* readLines, lines 91 to 94 and 97 to 100: a line that does not parse, or an
\* error of the scanner: os.Exit(1).
ScanFails ==
    /\ proc = "running" /\ rl.pc = "scan"
    /\ scanned < Len(input) /\ input[scanned + 1].k \in {"bad", "ioerr"}
    /\ proc' = "exit1"
    /\ UNCHANGED <<pFlag, input, scanned, rl, requestsClosed, mainPc, i, wg,
                   workers, closerPc, resultsClosed, printed, taken, ran, xvars, tvars>>

\* readLines, line 101: the end of standard input.
CloseRequests ==
    /\ proc = "running" /\ rl.pc = "scan"
    /\ scanned = Len(input)
    /\ requestsClosed' = TRUE
    /\ rl' = [pc |-> "done", item |-> NoItem]
    /\ UNCHANGED <<pFlag, input, scanned, mainPc, i, wg, workers, closerPc,
                   resultsClosed, printed, proc, taken, ran, xvars, tvars>>

\* Handoff as a buffered or repeated send would make it: the worker receives
\* the line and readLines still holds it to send.
HandoffKeepsLine(w) ==
    /\ proc = "running" /\ rl.pc = "send" /\ workers[w].pc = "recv"
    /\ workers' = [workers EXCEPT ![w] = [pc |-> "work", item |-> rl.item]]
    /\ taken' = Append(taken, <<rl.item.id, w>>)
    /\ UNCHANGED <<pFlag, input, scanned, rl, requestsClosed, mainPc, i, wg,
                   closerPc, resultsClosed, printed, proc, ran, xvars, tvars>>

\* Line 95 and line 105: requests is unbuffered, so the send of readLines and
\* the receive of worker w are one step.
Handoff(w) ==
    /\ proc = "running" /\ rl.pc = "send" /\ workers[w].pc = "recv"
    /\ workers' = [workers EXCEPT ![w] = [pc |-> "work", item |-> rl.item]]
    /\ rl' = [pc |-> "scan", item |-> NoItem]
    /\ taken' = Append(taken, <<rl.item.id, w>>)
    /\ UNCHANGED <<pFlag, input, scanned, requestsClosed, mainPc, i, wg, closerPc,
                   resultsClosed, printed, proc, ran, xvars, tvars>>

\* Line 106: doRequest returns the result, which worker w goes on to send.
DoRequestReturns(w) ==
    /\ proc = "running" /\ workers[w].pc = "work"
    /\ ~doRequestOf(workers[w].item.d).panic
    /\ workers' = [workers EXCEPT
                      ![w] = [pc |-> "send",
                              item |-> Item(workers[w].item.id,
                                            doRequestOf(workers[w].item.d).line)]]
    /\ ran' = Append(ran, workers[w].item.id)
    /\ UNCHANGED <<pFlag, input, scanned, rl, requestsClosed, mainPc, i, wg,
                   closerPc, resultsClosed, printed, proc, taken, xvars, tvars>>

\* Line 106: doRequest panics.  No goroutine recovers, so the program ends.
DoRequestPanics(w) ==
    /\ proc = "running" /\ workers[w].pc = "work"
    /\ doRequestOf(workers[w].item.d).panic
    /\ proc' = "panicked"
    /\ ran' = Append(ran, workers[w].item.id)
    /\ UNCHANGED <<pFlag, input, scanned, rl, requestsClosed, mainPc, i, wg,
                   workers, closerPc, resultsClosed, printed, taken, xvars, tvars>>

\* Line 106 and lines 200 to 206: results is unbuffered, so the send of worker
\* w and the receive of printResults are one step; printResults prints.
PrintResult(w) ==
    /\ proc = "running" /\ mainPc = "print" /\ workers[w].pc = "send"
    /\ ~resultsClosed
    /\ printed' = Append(printed, workers[w].item)
    /\ workers' = [workers EXCEPT ![w] = [pc |-> "recv", item |-> NoItem]]
    /\ UNCHANGED <<pFlag, input, scanned, rl, requestsClosed, mainPc, i, wg,
                   closerPc, resultsClosed, proc, taken, ran, xvars, tvars>>

\* WorkerExit without the deferred wg.Done().
WorkerExitNoDone(w) ==
    /\ proc = "running" /\ workers[w].pc = "recv"
    /\ requestsClosed
    /\ workers' = [workers EXCEPT ![w].pc = "done"]
    /\ UNCHANGED <<pFlag, input, scanned, rl, requestsClosed, mainPc, i, wg,
                   closerPc, resultsClosed, printed, proc, taken, ran, xvars, tvars>>

\* Lines 105 and 74: requests is closed, the loop of worker w ends, and the
\* deferred wg.Done() runs.
WorkerExit(w) ==
    /\ proc = "running" /\ workers[w].pc = "recv"
    /\ requestsClosed
    /\ workers' = [workers EXCEPT ![w].pc = "done"]
    /\ wg' = wg - 1
    /\ UNCHANGED <<pFlag, input, scanned, rl, requestsClosed, mainPc, i, closerPc,
                   resultsClosed, printed, proc, taken, ran, xvars, tvars>>

\* Lines 79 and 80: wg.Wait() returns when the counter is zero.
CloseResults ==
    /\ proc = "running" /\ closerPc = "wait"
    /\ wg = 0
    /\ resultsClosed' = TRUE
    /\ closerPc' = "done"
    /\ UNCHANGED <<pFlag, input, scanned, rl, requestsClosed, mainPc, i, wg,
                   workers, printed, proc, taken, ran, xvars, tvars>>

\* Line 200 and line 83: results is closed, printResults returns, and main
\* returns, which ends the program.
MainReturns ==
    /\ proc = "running" /\ mainPc = "print"
    /\ resultsClosed
    /\ mainPc' = "returned"
    /\ proc' = "exited"
    /\ UNCHANGED <<pFlag, input, scanned, rl, requestsClosed, i, wg, workers,
                   closerPc, resultsClosed, printed, taken, ran, xvars, tvars>>

Next ==
    \/ MainSpawn
    \/ MainStartCloser
    \/ ScanLine
    \/ ScanFails
    \/ CloseRequests
    \/ \E w \in DOMAIN workers : Handoff(w)
    \/ \E w \in DOMAIN workers : DoRequestReturns(w)
    \/ \E w \in DOMAIN workers : DoRequestPanics(w)
    \/ \E w \in DOMAIN workers : PrintResult(w)
    \/ \E w \in DOMAIN workers : WorkerExit(w)
    \/ CloseResults
    \/ MainReturns

Spec == Init /\ [][Next]_vars

\* The scheduler runs every goroutine that can take a step.
FairSpec == Spec /\ WF_vars(Next)

(***************************************************************************)
(* SpecRequest: the pipeline with one worker and at most one line, the     *)
(* line drawn from every host, port, TLS flag and request of the model,    *)
(* with and without result fields that the input line already carries.     *)
(***************************************************************************)
RequestLines == {InputLine("line", d) : d \in FreshLines \cup FilledLines}

\* Whether the line a record was made from carried no result fields.
IsFresh(id) == input[id].d \in FreshLines

InitRequest == InitPipeline({1}, Inputs(RequestLines, 1)) /\ IdleExtract

SpecRequest == InitRequest /\ [][Next]_vars

(***************************************************************************)
(* Properties of the pipeline and of doRequest.                            *)
(***************************************************************************)
\* How often x occurs in the sequence q.
CountIn(q, x) == Cardinality({k \in 1..Len(q) : q[k] = x})

TakenIds == [k \in 1..Len(taken) |-> taken[k][1]]
PrintedIds == [k \in 1..Len(printed) |-> printed[k].id]

\* The records doRequest has returned: those a worker is sending and those
\* printResults has received.
ReturnedItems ==
    {workers[w].item : w \in {v \in DOMAIN workers : workers[v].pc = "send"}}
    \cup {printed[k] : k \in 1..Len(printed)}

\* C1: no line is received from requests twice, run twice or printed twice,
\* and when main has returned, every one of the K lines of the input was
\* received by one worker, run by doRequest once and printed once, the
\* printed record being what doRequest makes of that line: K lines in, K
\* records out, under every interleaving.
C1_ExactlyOnce ==
    /\ \A id \in 1..Len(input) :
          /\ CountIn(TakenIds, id) <= 1
          /\ CountIn(ran, id) <= 1
          /\ CountIn(PrintedIds, id) <= 1
    /\ proc = "exited" =>
          /\ Len(printed) = Len(input)
          /\ \A id \in 1..Len(input) :
                /\ CountIn(TakenIds, id) = 1
                /\ CountIn(ran, id) = 1
                /\ \E k \in 1..Len(printed) :
                      printed[k] = Item(id, doRequest(input[id].d).line)

\* A run to completion of several lines on which both workers took lines.
C1_Witness ==
    /\ proc = "exited" /\ Len(input) >= 2 /\ Len(printed) = Len(input)
    /\ \E a, b \in 1..Len(taken) : taken[a][2] # taken[b][2]

AllWorkersDone == \A w \in DOMAIN workers : workers[w].pc = "done"

\* C2: results is closed only when every worker has left its loop;
\* printResults returns only when it has received every record doRequest
\* returned, and then readLines, the workers and the closer have all ended;
\* and, provided no doRequest call fails to return, once requests is closed
\* the program ends by main returning.
C2_Terminates ==
    /\ [](resultsClosed => AllWorkersDone)
    /\ [](proc = "exited" =>
            /\ Len(printed) = Len(ran)
            /\ rl.pc = "done" /\ closerPc = "done" /\ AllWorkersDone)
    /\ ([](proc # "panicked") => (requestsClosed ~> proc = "exited"))

\* Main has returned after two workers delivered records.
C2_Witness ==
    /\ proc = "exited" /\ pFlag >= 2 /\ Len(printed) >= 2
    /\ resultsClosed /\ AllWorkersDone

\* C3: whatever the outcome of a request, doRequest returns a record for
\* it and the process is not terminated: every line doRequest was called on
\* has its record with a worker or with printResults.
C3_FailuresAreLocal ==
    /\ proc # "panicked"
    /\ \A k \in 1..Len(ran) : \E it \in ReturnedItems : it.id = ran[k]

\* C4 as claimed: every record doRequest returns has exactly one of the two
\* tags: non-empty Resp, or non-zero Errno together with Err.
C4_ExactlyOneTag ==
    \A it \in ReturnedItems :
        (it.d.Resp # <<>>) # (it.d.Errno # 0 /\ it.d.Err # "")

\* C4 as amended: every record doRequest returns has at least one of the two
\* tags; and for a line that came without result fields, Errno is zero
\* exactly when Err is empty, a zero Errno comes with a non-empty Resp, and
\* Resp stands beside a non-zero Errno only with Errno 99 (the extraction
\* failed and the bytes read so far are kept).
C4_AtLeastOneTag ==
    \A it \in ReturnedItems :
        /\ it.d.Resp # <<>> \/ (it.d.Errno # 0 /\ it.d.Err # "")
        /\ IsFresh(it.id) =>
              /\ (it.d.Errno = 0) <=> (it.d.Err = "")
              /\ it.d.Errno = 0 => it.d.Resp # <<>>
              /\ (it.d.Errno # 0 /\ it.d.Resp # <<>>) => it.d.Errno = 99

\* A record of a fresh line with both tags, and one with Errno alone.
C4_Witness ==
    \E it \in ReturnedItems :
        IsFresh(it.id) /\ it.d.Resp # <<>> /\ it.d.Errno = 99 /\ it.d.Err # ""

(***************************************************************************)
(* SpecExtract: ExtractResponse applied to a generated response.           *)
(***************************************************************************)
IdlePipeline ==
    /\ pFlag = 0
    /\ input = <<>>
    /\ scanned = 0
    /\ rl = [pc |-> "idle", item |-> NoItem]
    /\ requestsClosed = FALSE
    /\ mainPc = "idle"
    /\ i = 0
    /\ wg = 0
    /\ workers = <<>>
    /\ closerPc = "idle"
    /\ resultsClosed = FALSE
    /\ printed = <<>>
    /\ proc = "idle"
    /\ taken = <<>>
    /\ ran = <<>>

NoResult == [out |-> <<>>, err |-> "nil"]

InitExtract ==
    /\ (xin \in HeadResponses \/ xin \in BodyResponses)
    /\ xpc = "ready"
    /\ xres = NoResult
    /\ IdlePipeline
    /\ IdleReader

\* The call returns: (out.String(), err).
ExtractReturns ==
    /\ xpc = "ready"
    /\ ~ExtractResponse(Stream(xin), xin.headRequest).panic
    /\ xres' = [out |-> ExtractResponse(Stream(xin), xin.headRequest).out,
                err |-> ExtractResponse(Stream(xin), xin.headRequest).err]
    /\ xpc' = "returned"
    /\ UNCHANGED <<xin, pvars, tvars>>

\* The call panics: nothing is returned.
ExtractPanics ==
    /\ xpc = "ready"
    /\ ExtractResponse(Stream(xin), xin.headRequest).panic
    /\ xpc' = "panicked"
    /\ UNCHANGED <<xin, xres, pvars, tvars>>

NextExtract == ExtractReturns \/ ExtractPanics

SpecExtract == InitExtract /\ [][NextExtract]_vars

(***************************************************************************)
(* Properties of ExtractResponse.  What a generated response is comes from *)
(* the labels of its parts.                                                *)
(***************************************************************************)
\* The header lines that are Content-Length lines, and those that are
\* Transfer-Encoding lines.
CLLines(x) == {k \in 1..Len(x.headers) : x.headers[k].k \in {"CL", "CLbad"}}
TELines(x) == {k \in 1..Len(x.headers) : x.headers[k].k = "TE"}

\* The last coding of the last Transfer-Encoding line, "" without one.
LastCoding(x) ==
    IF TELines(x) = {} THEN "" ELSE x.headers[MaxOf(TELines(x))].coding

\* The status line has a code, and the code allows a body.
BodyCarrying(x) == x.status.wellFormed /\ ~NoBodyCode(x.status.code)

\* Exactly one Content-Length line, with a non-negative decimal number.
OneContentLength(x) ==
    Cardinality(CLLines(x)) = 1 /\ \A k \in CLLines(x) : x.headers[k].k = "CL"
ContentLengthOf(x) == x.headers[CHOOSE k \in CLLines(x) : TRUE].n

\* At most one Content-Length line, with a decimal number.
HeadParses(x) ==
    Cardinality(CLLines(x)) <= 1 /\ \A k \in CLLines(x) : x.headers[k].parses

\* The status line and the header lines up to the first Content-Length line
\* that is a second one or has no decimal number, that line included.
HeadUpToFault(x) ==
    LET bad == {k \in CLLines(x) :
                   ~x.headers[k].parses \/ \E j \in CLLines(x) : j < k}
        upto == IF bad = {} THEN Len(x.headers) ELSE MinOf(bad)
    IN  x.status.text \o x.eol
        \o Concat([k \in 1..upto |-> x.headers[k].text \o x.eol])

Take(s, n) == SubSeq(s, 1, n)
Drop(s, n) == SubSeq(s, n + 1, Len(s))

\* C5: a non-HEAD call on a response with a body-carrying status, one
\* Content-Length: L line, no Transfer-Encoding line that says chunked and
\* at least L bytes after the head returns, without error, the head followed
\* by exactly the next L bytes.
C5_ContentLengthFraming ==
    (/\ xpc # "ready" /\ ~xin.headRequest /\ BodyCarrying(xin)
     /\ OneContentLength(xin)
     /\ \A k \in TELines(xin) : xin.headers[k].coding = "other"
     /\ Len(BodyBytes(xin)) >= ContentLengthOf(xin))
    => /\ xpc = "returned"
       /\ xres.err = "nil"
       /\ xres.out = HeadBytes(xin) \o Take(BodyBytes(xin), ContentLengthOf(xin))

\* A body longer than the copy buffer, read in small pieces, with bytes
\* after it that stay out of the output.
C5_Witness ==
    /\ xpc = "returned" /\ ~xin.headRequest /\ BodyCarrying(xin)
    /\ OneContentLength(xin) /\ TELines(xin) = {}
    /\ ContentLengthOf(xin) > maxBufSize
    /\ Len(BodyBytes(xin)) > ContentLengthOf(xin)
    /\ xin.readSize < maxBufSize
    /\ Len(xres.out) = Len(HeadBytes(xin)) + ContentLengthOf(xin)

\* The chunks of a chunked body all state their payload's length in
\* hexadecimal digits.
GoodChunks(x) ==
    x.body.k = "chunked"
    /\ \A k \in 1..Len(x.body.chunks) : x.body.chunks[k].tok = "hex"

\* C6: a non-HEAD call on a chunked response with a body-carrying status
\* returns, without error, the input up to and including the blank line that
\* ends the trailers: the head, every chunk-size line, every payload with its
\* terminator, the zero-size chunk line and the trailer lines.
C6_ChunkedFraming ==
    (/\ xpc # "ready" /\ ~xin.headRequest /\ BodyCarrying(xin)
     /\ HeadParses(xin) /\ LastCoding(xin) = "chunked" /\ GoodChunks(xin))
    => /\ xpc = "returned"
       /\ xres.err = "nil"
       /\ xres.out = HeadBytes(xin) \o FramingBytes(xin)

\* A chunk with an extension, a trailer line, and bytes after the framing.
C6_Witness ==
    /\ xpc = "returned" /\ ~xin.headRequest /\ BodyCarrying(xin)
    /\ HeadParses(xin) /\ LastCoding(xin) = "chunked" /\ GoodChunks(xin)
    /\ Len(xin.body.chunks) >= 1 /\ xin.body.trailers # <<>>
    /\ xin.body.extra # <<>>
    /\ xres.out = HeadBytes(xin) \o FramingBytes(xin)

\* C7 as claimed: with the HEAD flag set the output is the head, through its
\* blank line, whatever the header lines are.
C7_HeadEndsAtBlankLine ==
    (xpc # "ready" /\ xin.headRequest)
    => (xpc = "returned" /\ xres.out = HeadBytes(xin))

\* C7 as amended: with the HEAD flag set the call returns and copies no
\* byte that follows the blank line; when the head has at most one
\* Content-Length line and its value is a decimal number, the output is the
\* head through its blank line, without error; otherwise the call returns an
\* error and the output ends with the Content-Length line at fault.
C7_HeadCopiesNoBody ==
    (xpc # "ready" /\ xin.headRequest)
    => /\ xpc = "returned"
       /\ HeadParses(xin) => (xres.err = "nil" /\ xres.out = HeadBytes(xin))
       /\ ~HeadParses(xin) => (xres.err # "nil" /\ xres.out = HeadUpToFault(xin))

\* A HEAD call on a response with a Content-Length line and a chunked
\* Transfer-Encoding line, followed by bytes.
C7_Witness ==
    /\ xpc = "returned" /\ xin.headRequest /\ BodyCarrying(xin)
    /\ OneContentLength(xin) /\ ContentLengthOf(xin) > 0
    /\ LastCoding(xin) = "chunked" /\ BodyBytes(xin) # <<>>
    /\ xres.out = HeadBytes(xin)

\* C8 as claimed: for a status code 1xx, 204 or 304 the output is the head,
\* through its blank line, whatever the header lines are.
C8_NoBodyEndsAtBlankLine ==
    (xpc # "ready" /\ xin.status.wellFormed /\ NoBodyCode(xin.status.code))
    => (xpc = "returned" /\ xres.out = HeadBytes(xin))

\* C8 as amended: for a status code 1xx, 204 or 304 the call returns and
\* copies no byte that follows the blank line; when the head has at most one
\* Content-Length line and its value is a decimal number, the output is the
\* head through its blank line, without error; otherwise the call returns an
\* error and the output ends with the Content-Length line at fault.
C8_NoBodyCopiesNoBody ==
    (xpc # "ready" /\ xin.status.wellFormed /\ NoBodyCode(xin.status.code))
    => /\ xpc = "returned"
       /\ HeadParses(xin) => (xres.err = "nil" /\ xres.out = HeadBytes(xin))
       /\ ~HeadParses(xin) => (xres.err # "nil" /\ xres.out = HeadUpToFault(xin))

\* A non-HEAD call on a 304 response with a chunked Transfer-Encoding line,
\* followed by bytes.
C8_Witness ==
    /\ xpc = "returned" /\ ~xin.headRequest /\ xin.status.code = 304
    /\ LastCoding(xin) = "chunked" /\ BodyBytes(xin) # <<>>
    /\ xres.out = HeadBytes(xin)

\* The response x with the number of its Content-Length line replaced by n.
WithContentLength(x, n) ==
    [x EXCEPT !.headers =
        [k \in 1..Len(x.headers) |->
            IF x.headers[k].k = "CL" THEN CLHeader(sCLName, n) ELSE x.headers[k]]]

\* A Content-Length line and a Transfer-Encoding line that says chunked.
BothFramings(x) ==
    OneContentLength(x) /\ LastCoding(x) = "chunked"

\* What ExtractResponse does on x after the head: whether it panics, the
\* error it returns and the output that follows the head.
AfterHead(x, res) ==
    [panic |-> res.panic, err |-> IF res.panic THEN "nil" ELSE res.err,
     out |-> IF res.panic THEN <<>> ELSE Drop(res.out, Len(HeadBytes(x)))]
AfterHeadOf(x) == AfterHead(x, ExtractResponse(Stream(x), x.headRequest))

ContentLengths == {0, 3, LongLen}

\* C9: on a response with a Content-Length line and a chunked
\* Transfer-Encoding line, in either order, a non-HEAD call does after the
\* head what it does when the Content-Length is any other number, and on a
\* well-formed chunked body that is the chunked framing whatever the number.
C9_ChunkedOverContentLength ==
    (/\ xpc # "ready" /\ ~xin.headRequest /\ BodyCarrying(xin)
     /\ BothFramings(xin))
    => /\ \A n \in ContentLengths :
             AfterHeadOf(WithContentLength(xin, n)) = AfterHeadOf(xin)
       /\ GoodChunks(xin) =>
             /\ xpc = "returned"
             /\ xres.err = "nil"
             /\ xres.out = HeadBytes(xin) \o FramingBytes(xin)

\* The Transfer-Encoding line before the Content-Length line, whose number
\* is not the length of the chunked framing.
C9_Witness ==
    /\ xpc = "returned" /\ ~xin.headRequest /\ BodyCarrying(xin)
    /\ BothFramings(xin) /\ GoodChunks(xin)
    /\ MaxOf(CLLines(xin)) > MaxOf(TELines(xin))
    /\ ContentLengthOf(xin) # Len(FramingBytes(xin))
    /\ xres.out = HeadBytes(xin) \o FramingBytes(xin)

\* Whether a chunked body is read as one: a non-HEAD call, a body-carrying
\* status, a head that parses and a Transfer-Encoding that says chunked.
ReadAsChunked(x) ==
    /\ ~x.headRequest /\ BodyCarrying(x) /\ HeadParses(x)
    /\ LastCoding(x) = "chunked" /\ x.body.k = "chunked"

\* The first chunk whose size token is malformed, 0 without one, when the
\* chunks before it are well-formed.
FirstMalformed(x) ==
    LET M == {k \in 1..Len(x.body.chunks) : x.body.chunks[k].tok # "hex"}
    IN  IF M = {} THEN 0
        ELSE IF x.body.chunks[MinOf(M)].tok = "malformed" THEN MinOf(M) ELSE 0

\* The bytes copied before the fault in chunk j: the head, the chunks before
\* chunk j and the size line of chunk j.
CopiedBeforeFault(x, j) ==
    HeadBytes(x)
    \o Concat([k \in 1..(j - 1) |-> ChunkBytes(x.body.chunks[k], x.eol)])
    \o x.body.chunks[j].size \o x.body.chunks[j].ext \o x.eol

\* C10: in a chunked body a malformed chunk-size token makes
\* ExtractResponse return an error, with the bytes copied before the fault
\* as the output; and a chunk-size below the payload's length ends in an
\* error.
C10_MalformedChunkSizeIsError ==
    (xpc # "ready" /\ ReadAsChunked(xin))
    => /\ FirstMalformed(xin) > 0 =>
             /\ xpc = "returned"
             /\ xres.err # "nil"
             /\ xres.out = CopiedBeforeFault(xin, FirstMalformed(xin))
       /\ (\E k \in 1..Len(xin.body.chunks) : xin.body.chunks[k].tok = "short")
             => (xpc = "returned" /\ xres.err # "nil")

(***************************************************************************)
(* Further properties of the pipeline.                                     *)
(***************************************************************************)
\* C11: the k-th line a worker receives from requests is the k-th line of
\* standard input, whatever the number of workers; and with one worker the
\* k-th record printed is the record of the k-th line.
C11_ArrivalOrder ==
    /\ \A k \in 1..Len(taken) : taken[k][1] = k
    /\ pFlag = 1 => \A k \in 1..Len(printed) : printed[k].id = k

\* Two workers, the lines received in order, and the record of the second
\* line printed before the record of the first.
C11_Witness ==
    /\ proc = "exited" /\ pFlag >= 2 /\ Len(taken) >= 2
    /\ taken[1][1] = 1 /\ taken[2][1] = 2
    /\ Len(printed) >= 2 /\ printed[1].id = 2 /\ printed[2].id = 1

(***************************************************************************)
(* Further properties of doRequest.                                        *)
(***************************************************************************)
\* How often the call c occurs among the calls q on a connection.
Calls(q, c) == Cardinality({k \in 1..Len(q) : q[k] = c})

\* What doRequest did on the line with number id.
Outcome(id) == doRequestOf(input[id].d)

\* C12: doRequest, when it has a connection, calls Close on it exactly once,
\* as the last call on it, on every path (also the panicking one); without a
\* connection it makes no call.
C12_ConnectionClosedOnce ==
    \A k \in 1..Len(ran) :
        IF getConn(setDefaultTLSAndPortIfNecessary(input[ran[k]].d)).msg # "nil"
        THEN Outcome(ran[k]).conn = <<>>
        ELSE /\ Calls(Outcome(ran[k]).conn, "Close") = 1
             /\ Outcome(ran[k]).conn[Len(Outcome(ran[k]).conn)] = "Close"

\* doRequest has returned from a write that failed, the connection closed.
C12_Witness ==
    \E k \in 1..Len(ran) :
        /\ Outcome(ran[k]).line.Errno = 30
        /\ Outcome(ran[k]).conn = <<"SetDeadline", "Write", "Close">>

\* The JSON texts that json.Unmarshal reads as the line with number id.
Sources(id) == {j \in JSONLines : Unmarshal(j) = input[id].d}

\* Whether the record d was made over TLS, as the server of a host that
\* lets the dial succeed and the handshake fail shows.
HandshakeTried(d) ==
    (Server(d.Host).dial.msg = "nil" /\ Server(d.Host).handshake.msg # "nil")
    => ((d.Err = Server(d.Host).handshake.msg) <=> (d.TLS = <<TRUE>>))

\* C13 as claimed: the record has TLS = true for a line without tls member
\* and the stated flag otherwise; it has port 443, or 80 when its TLS flag is
\* false, for a line without port member and the stated port otherwise.
C13_StatedValuesKept ==
    \A it \in ReturnedItems : \A j \in Sources(it.id) :
        /\ it.d.TLS = IF j.tls = <<>> THEN <<TRUE>> ELSE j.tls
        /\ it.d.Port = IF j.port = <<>>
                       THEN (IF it.d.TLS = <<FALSE>> THEN 80 ELSE 443)
                       ELSE j.port[1]

\* C13 as amended: the record has TLS = true for a line without tls member
\* and the stated flag otherwise, and the request was made accordingly; it
\* has port 443, or 80 when its TLS flag is false, for a line without port
\* member and for a line that states port 0, and the stated port otherwise.
C13_DefaultsResolved ==
    \A it \in ReturnedItems : \A j \in Sources(it.id) :
        /\ it.d.TLS = IF j.tls = <<>> THEN <<TRUE>> ELSE j.tls
        /\ HandshakeTried(it.d)
        /\ it.d.Port = IF j.port = <<>> \/ j.port = <<0>>
                       THEN (IF it.d.TLS = <<FALSE>> THEN 80 ELSE 443)
                       ELSE j.port[1]

\* A record made from a line with neither member, over TLS and with port
\* 443.
C13_Witness ==
    \E it \in ReturnedItems : \E j \in Sources(it.id) :
        /\ j.tls = <<>> /\ j.port = <<>>
        /\ it.d.TLS = <<TRUE>> /\ it.d.Port = 443
        /\ it.d.Err = ErrHandshake.msg

(***************************************************************************)
(* Further properties of ExtractResponse.                                  *)
(***************************************************************************)
\* The Content-Length lines that are a second one, or whose value is not a
\* non-negative decimal number.
FaultyCLLines(x) ==
    {k \in CLLines(x) : x.headers[k].k = "CLbad" \/ \E j \in CLLines(x) : j < k}

\* The status line and the header lines up to the first such line, that
\* line included.
HeadUpToFaultyCL(x) ==
    x.status.text \o x.eol
    \o Concat([k \in 1..MinOf(FaultyCLLines(x)) |-> x.headers[k].text \o x.eol])

\* C14: a response whose head has a second Content-Length line, or one
\* whose value is not a non-negative decimal number (-5 included), makes
\* ExtractResponse return an error with the head up to that line as the
\* output, so without any byte of the body.
C14_BadContentLengthIsError ==
    (xpc # "ready" /\ FaultyCLLines(xin) # {})
    => /\ xpc = "returned"
       /\ xres.err # "nil"
       /\ xres.out = HeadUpToFaultyCL(xin)

\* The last coding of the last Transfer-Encoding line is chunked, in
\* whatever case.
SaysChunked(x) == LastCoding(x) \in {"chunked", "Chunked"}

\* C15: a non-HEAD call on a response with a body-carrying status, no
\* Content-Length line, a chunked body and bytes after it returns the input
\* up to the end of the chunked framing, and not up to the end of the input,
\* exactly when the last coding of the last Transfer-Encoding line is chunked
\* compared case-insensitively, whatever the case of the header name.
C15_ChunkedIffLastCoding ==
    (/\ xpc # "ready" /\ ~xin.headRequest /\ BodyCarrying(xin)
     /\ CLLines(xin) = {} /\ GoodChunks(xin) /\ xin.body.extra # <<>>)
    => ((/\ xpc = "returned"
         /\ xres.err = "nil"
         /\ xres.out = HeadBytes(xin) \o FramingBytes(xin))
        <=> SaysChunked(xin))

(***************************************************************************)
(* The deadline of a request.                                              *)
(***************************************************************************)
\* The phase in which the deadline of the request d expires: "connect" (the
\* dial or the handshake), "write", "read" (a Read of the extraction), or
\* "none".
ExpiryPhase(d) ==
    LET request == setDefaultTLSAndPortIfNecessary(d)
        peer == Server(request.Host)
    IN  IF getConn(request).msg # "nil"
        THEN (IF getConn(request).deadline THEN "connect" ELSE "none")
        ELSE IF peer.setDeadline.msg # "nil" THEN "none"
        ELSE IF peer.write.msg # "nil"
        THEN (IF peer.write.deadline THEN "write" ELSE "none")
        ELSE IF /\ peer.stream.end = "i/o timeout"
                /\ ExtractResponse(peer.stream, isHEAD(request.Req)).err # "nil"
        THEN "read" ELSE "none"

\* C16: the record of a request whose deadline expired has Errno 31, in
\* whichever phase it expired: connect, write or read.
C16_TimeoutIs31 ==
    \A it \in ReturnedItems :
        (IsFresh(it.id) /\ ExpiryPhase(input[it.id].d) # "none")
        => it.d.Errno = 31

(***************************************************************************)
(* The status line and the method of the request.                          *)
(***************************************************************************)
\* C17: a response whose status line has no status code makes
\* ExtractResponse return an error with the bytes copied so far, the status
\* line, as the output: no header line and no body is read.
C17_MalformedStatusLineIsError ==
    (xpc # "ready" /\ ~xin.status.wellFormed)
    => /\ xpc = "returned"
       /\ xres.err # "nil"
       /\ xres.out = xin.status.text \o xin.eol

\* The method token of a raw request: the characters before its first space.
MethodToken(req) ==
    IF IndexByte(req, 32) = 0 THEN req ELSE SubSeq(req, 1, IndexByte(req, 32) - 1)

\* C18: a request is treated as a HEAD request exactly when its method token
\* is HEAD: the record of a request to a peer that answers with a head and a
\* body of three bytes has the head alone as Resp when the token is HEAD, and
\* the head and the body otherwise, as for the method HEADER.
C18_HeadIffMethodToken ==
    \A it \in ReturnedItems :
        (IsFresh(it.id) /\ it.d.Host = "ok.test")
        => /\ isHEAD(it.d.Req) <=> (MethodToken(it.d.Req) = SubSeq(sHEAD, 1, 4))
           /\ it.d.Resp = IF MethodToken(it.d.Req) = SubSeq(sHEAD, 1, 4)
                          THEN SubSeq(sOkResponse, 1, Len(sOkResponse) - 3)
                          ELSE sOkResponse

(***************************************************************************)
(* SpecReader: doRequest from its write on, with the timedReader between   *)
(* the connection and the reader of the response.  The clock is the        *)
(* monotonic clock that time.Now() reads and Sub compares: it never goes   *)
(* back.  The reader of the response is any client of the timedReader: it  *)
(* makes any sequence of Read calls, with buffers of any of the sizes      *)
(* ReadBufSizes, and returns any prefix of the bytes read, with or without *)
(* an error.                                                               *)
(***************************************************************************)
MaxTime == 2
MaxReads == 3
ReadBufSizes == {0, 2}

\* The lines doRequest is called on: one without result fields, and one that
\* carries the reqat and ping of an earlier run.
ReaderLines ==
    { Httpline("ok.test", 0, <<>>, sGET),
      [Httpline("ok.test", 0, <<>>, sGET) EXCEPT !.Reqat = <<0>>, !.Ping = 7] }

\* The connections: what they deliver, and the error of a write.
ReaderConns ==
    [stream : [data : {<<>>, sAbc}, end : StreamEnds, readSize : {2}],
     r : {0}, write : {NoError, ErrWriteTimeout}]

\* conn.Read(p) with len(p) = size: what the wrapped reader returns, p being
\* the bytes it has put into the buffer.
connRead(c, size) ==
    [n |-> Read(c.stream, c.r, size).n,
     err |-> Read(c.stream, c.r, size).err,
     p |-> SubSeq(c.stream.data, c.r + 1, c.r + Read(c.stream, c.r, size).n)]

\* A timedReader.Read that records the time of every call that yields a
\* byte.
timedReaderReadLatest(t, res, clock) ==
    [t |-> [t EXCEPT !.readAt = IF res.n > 0 THEN <<clock>> ELSE t.readAt],
     n |-> res.n, err |-> res.err, p |-> res.p]

\* timedReader.Read, res being what t.r.Read(p) returned and clock what
\* time.Now() returns: the timedReader after the call, and what the call
\* returns.
timedReaderRead(t, res, clock) ==
    [t |-> [t EXCEPT !.readAt = IF t.readAt = <<>> /\ res.n > 0
                                THEN <<clock>> ELSE t.readAt],
     n |-> res.n, err |-> res.err, p |-> res.p]

\* A call of timedReader.Read in the history: the size of its buffer, what
\* the wrapped reader returned (inner), what the call returned, readAt after
\* it and the time of the call.
ReadCall(size, res, ret, clock) ==
    [size |-> size, inner |-> res, n |-> ret.n, err |-> ret.err, p |-> ret.p,
     readAt |-> ret.t.readAt, at |-> clock]

InitReader ==
    /\ now = 0
    /\ netConn \in ReaderConns
    /\ timedConn = [readAt |-> <<>>]
    /\ readCalls = <<>>
    /\ \E ln \in ReaderLines :
          treq = [pc |-> "write", line |-> ln, request |-> ln, wrote |-> FALSE]
    /\ IdlePipeline
    /\ xin = <<>> /\ xpc = "idle" /\ xres = <<>>

\* Time passes.
Tick ==
    /\ treq.pc \in {"write", "extract"}
    /\ now < MaxTime
    /\ now' = now + 1
    /\ UNCHANGED <<netConn, timedConn, readCalls, treq, pvars, xvars>>

\* Lines 123 to 128: the write fails.
WriteFails ==
    /\ treq.pc = "write"
    /\ netConn.write.msg # "nil"
    /\ treq' = [treq EXCEPT !.pc = "returned",
                            !.request.Errno = 30,
                            !.request.Err = netConn.write.msg]
    /\ UNCHANGED <<now, netConn, timedConn, readCalls, pvars, xvars>>

\* Lines 123 and 129 to 131: the write succeeds, Reqat is the time after it
\* and the timedReader is made.
WriteSucceeds ==
    /\ treq.pc = "write"
    /\ netConn.write.msg = "nil"
    /\ treq' = [treq EXCEPT !.pc = "extract", !.wrote = TRUE,
                            !.request.Reqat = <<now>>]
    /\ timedConn' = [readAt |-> <<>>]
    /\ UNCHANGED <<now, netConn, readCalls, pvars, xvars>>

\* A call of timedConn.Read by the reader of the response.
TimedRead ==
    /\ treq.pc = "extract"
    /\ Len(readCalls) < MaxReads
    /\ \E size \in ReadBufSizes :
          /\ timedConn' = timedReaderRead(timedConn, connRead(netConn, size), now).t
          /\ netConn' = [netConn EXCEPT !.r = @ + connRead(netConn, size).n]
          /\ readCalls' = Append(readCalls,
                ReadCall(size, connRead(netConn, size),
                         timedReaderRead(timedConn, connRead(netConn, size), now),
                         now))
    /\ UNCHANGED <<now, treq, pvars, xvars>>

\* Lines 132 to 141: ExtractResponse returns k of the bytes read, with or
\* without an error.
ExtractionReturns ==
    /\ treq.pc = "extract"
    /\ \E k \in 0..netConn.r : \E err \in {"nil", "could not read line"} :
          treq' = [treq EXCEPT
              !.pc = "returned",
              !.request.Resp = SubSeq(netConn.stream.data, 1, k),
              !.request.Ping = IF timedConn.readAt # <<>>
                               THEN timedConn.readAt[1] - treq.request.Reqat[1]
                               ELSE @,
              !.request.Errno = IF err # "nil" THEN 99 ELSE @,
              !.request.Err = IF err # "nil" THEN err ELSE @]
    /\ UNCHANGED <<now, netConn, timedConn, readCalls, pvars, xvars>>

NextReader == Tick \/ WriteFails \/ WriteSucceeds \/ TimedRead \/ ExtractionReturns

SpecReader == InitReader /\ [][NextReader]_vars

(***************************************************************************)
(* Properties of the timedReader.                                          *)
(***************************************************************************)
\* The calls, among the first k, that returned n > 0.
ByteCalls(k) == {j \in 1..k : readCalls[j].n > 0}

\* readAt is unset until the first call that returns n > 0, is the time of
\* that call from then on, and every call returns the n, err and bytes of the
\* wrapped reader, which are the bytes of the stream in their order.
ReadAtSetOnce ==
    /\ \A k \in 1..Len(readCalls) :
          /\ readCalls[k].readAt = IF ByteCalls(k) = {} THEN <<>>
                                   ELSE <<readCalls[MinOf(ByteCalls(k))].at>>
          /\ readCalls[k].n = readCalls[k].inner.n
          /\ readCalls[k].err = readCalls[k].inner.err
          /\ readCalls[k].p = readCalls[k].inner.p
    /\ timedConn.readAt = IF readCalls = <<>> THEN <<>>
                          ELSE readCalls[Len(readCalls)].readAt
    /\ Concat([k \in 1..Len(readCalls) |-> readCalls[k].p])
          = SubSeq(netConn.stream.data, 1, netConn.r)

\* C19 as claimed: readAt is set once, at the first call that returns
\* n > 0, and the calls return what the wrapped reader returns; the record
\* doRequest returns has a Reqat only if the write succeeded, and a Ping only
\* if the write succeeded and a call returned n > 0, the Ping being readAt
\* minus Reqat and not negative.
C19_TimesOnlyOfThisRequest ==
    /\ ReadAtSetOnce
    /\ treq.pc = "returned" =>
          /\ treq.request.Reqat # <<>> => treq.wrote
          /\ treq.request.Ping # 0 =>
                /\ treq.wrote /\ ByteCalls(Len(readCalls)) # {}
                /\ treq.request.Ping = timedConn.readAt[1] - treq.request.Reqat[1]
          /\ treq.request.Ping >= 0

\* C19 as amended: readAt is set once, at the first call that returns
\* n > 0, and the calls return what the wrapped reader returns; the record
\* doRequest returns has the Reqat of its input line unless the write
\* succeeded, and then the time of the write; it has the Ping of its input
\* line unless the write succeeded and a call returned n > 0, and then readAt
\* minus Reqat, which is not negative.
C19_ReadAtSetOnce ==
    /\ ReadAtSetOnce
    /\ treq.pc = "returned" =>
          /\ ~treq.wrote => treq.request.Reqat = treq.line.Reqat
          /\ treq.wrote =>
                /\ treq.request.Reqat # <<>>
                /\ treq.request.Reqat[1] \in 0..now
          /\ (~treq.wrote \/ ByteCalls(Len(readCalls)) = {})
                => treq.request.Ping = treq.line.Ping
          /\ (treq.wrote /\ ByteCalls(Len(readCalls)) # {}) =>
                /\ treq.request.Ping = timedConn.readAt[1] - treq.request.Reqat[1]
                /\ treq.request.Ping >= 0

\* The write at time 0, a call that returns no byte, a call that returns
\* bytes at time 1 and another one at time 2: readAt is 1 and the Ping 1.
C19_Witness ==
    /\ treq.pc = "returned" /\ treq.wrote /\ treq.request.Reqat = <<0>>
    /\ Len(readCalls) = 3
    /\ readCalls[1].n = 0 /\ readCalls[1].readAt = <<>>
    /\ readCalls[2].n > 0 /\ readCalls[2].at = 1
    /\ readCalls[3].n > 0 /\ readCalls[3].at = 2
    /\ timedConn.readAt = <<1>>
    /\ treq.request.Ping = 1

(***************************************************************************)
(* SpecBackpressure: the pipeline on inputs longer than the pool, so that  *)
(* lines wait.  All lines but the last are requests to ok.test; the last   *)
(* is any line of the pipeline.                                            *)
(***************************************************************************)
LongInputs(n) ==
    {<<>>}
    \cup {[k \in 1..len |->
              IF k < len
              THEN InputLine("line", Httpline("ok.test", 0, <<>>, sGET))
              ELSE last] :
          len \in 1..n, last \in PipelineLines \cup Fatal}

InitBackpressure ==
    InitPipeline(1..MaxWorkers, LongInputs(MaxLines + 2)) /\ IdleExtract

SpecBackpressure == InitBackpressure /\ [][Next]_vars

\* The workers that hold a line or its record.
Busy == {w \in DOMAIN workers : workers[w].pc \in {"work", "send"}}

\* C20: the lines scanned whose records printResults has not received are
\* the one readLines is sending, if any, and the one of every busy worker:
\* at most N + 1 for N workers; readLines cannot scan while it holds a line,
\* so not while every worker is busy and one more line is scanned; and a busy
\* worker cannot receive a line.
C20_BoundedBuffering ==
    /\ scanned - Len(printed)
          = Cardinality(Busy) + (IF rl.pc = "send" THEN 1 ELSE 0)
    /\ scanned - Len(printed) <= pFlag + 1
    /\ rl.pc = "send" => ~ENABLED ScanLine
    /\ \A w \in Busy : ~ENABLED Handoff(w)

\* Every one of the MaxWorkers workers is busy and readLines holds one more
\* line: N + 1 lines are in flight, and lines of the input are left that
\* readLines cannot scan.
C20_Witness ==
    /\ pFlag = MaxWorkers /\ Cardinality(Busy) = pFlag /\ rl.pc = "send"
    /\ scanned - Len(printed) = pFlag + 1
    /\ scanned < Len(input)

=============================================================================
